---- MODULE Spec2Model ----
(***************************************************************************)
(* Model of src/db/postgres.py: a process-wide, lazily initialised         *)
(* psycopg ConnectionPool held in the module global _pool, with the three  *)
(* operations init_pool, get_pool and close_pool.                          *)
(*                                                                         *)
(* Pool objects are identified by their position in the sequence `pools`   *)
(* of all ConnectionPool objects constructed so far; the global _pool      *)
(* holds such an identity, or NoPool for Python's None.                    *)
(***************************************************************************)
EXTENDS Integers, Sequences, FiniteSets, TLC

(* ---------------------------------------------------------------------- *)
(* Bounds                                                                  *)
(* ---------------------------------------------------------------------- *)

\* at most this many ConnectionPool objects are constructed in one behaviour
MaxPools == 2

\* at most this many of the five environment variables are unset or empty
\* at any one time
MaxMissing == 1

\* the number of threads calling into the module concurrently
NThreads == 2

(* ---------------------------------------------------------------------- *)
(* Values                                                                  *)
(* ---------------------------------------------------------------------- *)

\* Python's None for an Optional[str] (an unset environment variable, an
\* omitted dsn); distinct from every string the program handles
None == "<None>"

\* _pool: Optional[ConnectionPool] = None
NoPool == 0

\* default sizing of init_pool's signature
DefaultMinSize == 1
DefaultMaxSize == 10

\* the five environment variables init_pool reads
EnvKeys ==
  {"POSTGRES_USER", "POSTGRES_PASSWORD", "POSTGRES_HOST", "POSTGRES_PORT",
   "POSTGRES_TECHFLOW_DATABASE"}

\* the values a variable may have: unset, set to the empty string, or set
EnvValue(k) ==
  CASE k = "POSTGRES_USER" -> "u"
    [] k = "POSTGRES_PASSWORD" -> "p"
    [] k = "POSTGRES_HOST" -> "h"
    [] k = "POSTGRES_PORT" -> "5432"
    [] k = "POSTGRES_TECHFLOW_DATABASE" -> "d"

EnvValues(k) == {None, "", EnvValue(k)}

AllEnvValues == UNION {EnvValues(k) : k \in EnvKeys}

\* the variables that are unset or empty in e
Missing(e) == {k \in EnvKeys : e[k] \in {None, ""}}

Environments ==
  {e \in [EnvKeys -> AllEnvValues] :
     /\ \A k \in EnvKeys : e[k] \in EnvValues(k)
     /\ Cardinality(Missing(e)) <= MaxMissing}

\* the environment with all five variables set
CompleteEnv == [k \in EnvKeys |-> EnvValue(k)]

\* arguments callers pass to init_pool
DsnArgs == {None, "", "postgresql://x:y@z:1/w"}
SizeArgs == {<<DefaultMinSize, DefaultMaxSize>>, <<2, 5>>}

\* outcomes of a call
Ok == "ok"
ValueError == "ValueError"
AssertionError == "AssertionError"

(* ---------------------------------------------------------------------- *)
(* Pure helpers                                                            *)
(* ---------------------------------------------------------------------- *)

\* os.getenv(k): the value, or None when the variable is unset
getenv(e, k) == e[k]

\* Python truthiness of an Optional[str]: None and "" are falsy
Truthy(x) == x # None /\ x # ""

\* f-string interpolation {x}: None is rendered as the text "None"
Str(x) == IF x = None THEN "None" ELSE x

\* line 45: the connection string assembled from the five variables
postgres_url(e) ==
  "postgresql://" \o Str(getenv(e, "POSTGRES_USER")) \o ":"
    \o Str(getenv(e, "POSTGRES_PASSWORD")) \o "@"
    \o Str(getenv(e, "POSTGRES_HOST")) \o ":"
    \o Str(getenv(e, "POSTGRES_PORT")) \o "/"
    \o Str(getenv(e, "POSTGRES_TECHFLOW_DATABASE"))
    \o "?sslmode=require&channel_binding=require"

\* variant of missing_config that forgets POSTGRES_PORT
missing_config_no_port(e) ==
  \/ ~Truthy(getenv(e, "POSTGRES_USER"))
  \/ ~Truthy(getenv(e, "POSTGRES_PASSWORD"))
  \/ ~Truthy(getenv(e, "POSTGRES_HOST"))
  \/ ~Truthy(getenv(e, "POSTGRES_TECHFLOW_DATABASE"))

\* line 47: the condition under which init_pool raises
missing_config(e) ==
  \/ ~Truthy(getenv(e, "POSTGRES_USER"))
  \/ ~Truthy(getenv(e, "POSTGRES_PASSWORD"))
  \/ ~Truthy(getenv(e, "POSTGRES_HOST"))
  \/ ~Truthy(getenv(e, "POSTGRES_PORT"))
  \/ ~Truthy(getenv(e, "POSTGRES_TECHFLOW_DATABASE"))

\* variant of effective_dsn with the operands of `or` exchanged
effective_dsn_env_first(dsn, e) ==
  IF Truthy(postgres_url(e)) THEN postgres_url(e) ELSE dsn

\* line 46: dsn or postgres_url
effective_dsn(dsn, e) == IF Truthy(dsn) THEN dsn ELSE postgres_url(e)

\* ConnectionPool(effective_dsn, min_size=..., max_size=...): a fresh, open
\* pool; `closes` counts the invocations of its close()
ConnectionPool(dsn, min_size, max_size) ==
  [dsn |-> dsn, min_size |-> min_size, max_size |-> max_size, closes |-> 0]

\* the result of a call: the global and the pool objects afterwards, the
\* returned pool (NoPool when nothing is returned) and the outcome
Result(g, ps, r, x) == [_pool |-> g, pools |-> ps, ret |-> r, err |-> x]

(* ---------------------------------------------------------------------- *)
(* The three operations, run to completion from global g, pool objects ps  *)
(* and environment e                                                       *)
(* ---------------------------------------------------------------------- *)

\* variant of init_pool without the early return of lines 36-37
init_pool_rebuild(g, ps, e, dsn, min_size, max_size) ==
  IF missing_config(e)
    THEN Result(g, ps, NoPool, ValueError)
    ELSE LET new == Append(ps, ConnectionPool(effective_dsn(dsn, e), min_size, max_size))
         IN Result(Len(new), new, Len(new), Ok)

\* variant of init_pool that validates the environment before looking at _pool
init_pool_check_first(g, ps, e, dsn, min_size, max_size) ==
  IF missing_config(e)
    THEN Result(g, ps, NoPool, ValueError)
    ELSE IF g # NoPool
      THEN Result(g, ps, g, Ok)
      ELSE LET new == Append(ps, ConnectionPool(effective_dsn(dsn, e), min_size, max_size))
           IN Result(Len(new), new, Len(new), Ok)

init_pool(g, ps, e, dsn, min_size, max_size) ==
  IF g # NoPool
    THEN Result(g, ps, g, Ok)
    ELSE IF missing_config(e)
      THEN Result(g, ps, NoPool, ValueError)
      ELSE LET new == Append(ps, ConnectionPool(effective_dsn(dsn, e), min_size, max_size))
           IN Result(Len(new), new, Len(new), Ok)

\* variant of get_pool that initialises with sizing other than the defaults
get_pool_other_sizes(g, ps, e) ==
  LET r == IF g = NoPool
             THEN init_pool(g, ps, e, None, 2, 5)
             ELSE Result(g, ps, NoPool, Ok)
  IN IF r.err # Ok
       THEN Result(r._pool, r.pools, NoPool, r.err)
       ELSE IF r._pool = NoPool
         THEN Result(r._pool, r.pools, NoPool, AssertionError)
         ELSE Result(r._pool, r.pools, r._pool, Ok)

get_pool(g, ps, e) ==
  LET r == IF g = NoPool
             THEN init_pool(g, ps, e, None, DefaultMinSize, DefaultMaxSize)
             ELSE Result(g, ps, NoPool, Ok)
  IN IF r.err # Ok
       THEN Result(r._pool, r.pools, NoPool, r.err)
       ELSE IF r._pool = NoPool
         THEN Result(r._pool, r.pools, NoPool, AssertionError)
         ELSE Result(r._pool, r.pools, r._pool, Ok)

\* variant of close_pool that closes the pool but keeps the global
close_pool_keep_handle(g, ps) ==
  IF g # NoPool
    THEN Result(g, [ps EXCEPT ![g].closes = @ + 1], NoPool, Ok)
    ELSE Result(g, ps, NoPool, Ok)

\* variant of close_pool that clears the global without closing the pool
close_pool_no_close(g, ps) ==
  IF g # NoPool
    THEN Result(NoPool, ps, NoPool, Ok)
    ELSE Result(g, ps, NoPool, Ok)

\* variant of close_pool without the guard of line 66
close_pool_unguarded(g, ps) ==
  IF g # NoPool
    THEN Result(NoPool, [ps EXCEPT ![g].closes = @ + 1], NoPool, Ok)
    ELSE Result(g, ps, NoPool, "AttributeError")

close_pool(g, ps) ==
  IF g # NoPool
    THEN Result(NoPool, [ps EXCEPT ![g].closes = @ + 1], NoPool, Ok)
    ELSE Result(g, ps, NoPool, Ok)

(* ---------------------------------------------------------------------- *)
(* State                                                                   *)
(* ---------------------------------------------------------------------- *)

VARIABLES
  _pool,    \* the module global
  pools,    \* every ConnectionPool constructed so far
  env,      \* os.environ restricted to the five variables
  op,       \* the last step: the name of the call made, or "setenv"
  args,     \* the last call made: its arguments,
  pre,      \*   the value of _pool when it was made,
  ret,      \*   the pool it returned,
  err,      \*   its outcome,
  built,    \*   and whether it constructed a ConnectionPool
  prevOp,   \* op before the last step
  prevErr,  \* err before the last step
  lastGet,  \* the pool returned by the latest successful get_pool() since
            \* the last close_pool(), NoPool if there is none
  pc,       \* per thread: the line it is about to execute, or "idle"
  call,     \* per thread: the function it called (its outermost frame)
  targs,    \* per thread: the arguments of its init_pool frame
  tmp,      \* per thread: the ConnectionPool constructed on line 50, before
            \*   it is stored in the global
  tret,     \* per thread: what its last completed call returned,
  terr,     \*   its outcome,
  tstale,   \*   and whether the pool returned had been closed by then
  closing   \* whether any thread has called close_pool()

seqvars == <<op, args, pre, ret, err, built, prevOp, prevErr, lastGet>>
thrvars == <<pc, call, targs, tmp, tret, terr, tstale, closing>>
vars == <<_pool, pools, env, seqvars, thrvars>>

Threads == 1..NThreads

NoArgs == [dsn |-> None, min_size |-> DefaultMinSize, max_size |-> DefaultMaxSize]

Init ==
  /\ _pool = NoPool
  /\ pools = <<>>
  /\ env \in Environments
  /\ op = "start"
  /\ args = NoArgs
  /\ pre = NoPool
  /\ ret = NoPool
  /\ err = Ok
  /\ built = FALSE
  /\ prevOp = "start"
  /\ prevErr = Ok
  /\ lastGet = NoPool
  /\ pc = [t \in Threads |-> "idle"]
  /\ call = [t \in Threads |-> "none"]
  /\ targs = [t \in Threads |-> NoArgs]
  /\ tmp = [t \in Threads |-> NoPool]
  /\ tret = [t \in Threads |-> NoPool]
  /\ terr = [t \in Threads |-> Ok]
  /\ tstale = [t \in Threads |-> FALSE]
  /\ closing = FALSE

\* apply the result r of the call named o with arguments a
Apply(o, a, r) ==
  /\ Len(r.pools) <= MaxPools
  /\ _pool' = r._pool
  /\ pools' = r.pools
  /\ op' = o
  /\ args' = a
  /\ pre' = _pool
  /\ ret' = r.ret
  /\ err' = r.err
  /\ built' = (Len(r.pools) > Len(pools))
  /\ prevOp' = op
  /\ prevErr' = err
  /\ UNCHANGED <<env, thrvars>>

InitPool ==
  \E dsn \in DsnArgs, sz \in SizeArgs :
    /\ Apply("init_pool", [dsn |-> dsn, min_size |-> sz[1], max_size |-> sz[2]],
             init_pool(_pool, pools, env, dsn, sz[1], sz[2]))
    /\ UNCHANGED lastGet

GetPool ==
  LET r == get_pool(_pool, pools, env)
  IN /\ Apply("get_pool", NoArgs, r)
     /\ lastGet' = IF r.err = Ok THEN r.ret ELSE lastGet

ClosePool ==
  /\ Apply("close_pool", NoArgs, close_pool(_pool, pools))
  /\ lastGet' = NoPool

\* the process environment changes between calls (os.environ, load_dotenv);
\* the record of the last call is kept
SetEnv ==
  \E k \in EnvKeys : \E v \in EnvValues(k) :
    /\ env[k] # v
    /\ Cardinality(Missing([env EXCEPT ![k] = v])) <= MaxMissing
    /\ env' = [env EXCEPT ![k] = v]
    /\ op' = "setenv"
    /\ prevOp' = op
    /\ prevErr' = err
    /\ UNCHANGED <<_pool, pools, args, pre, ret, err, built, lastGet, thrvars>>

Next == InitPool \/ GetPool \/ ClosePool \/ SetEnv

Spec == Init /\ [][Next]_vars

(* ---------------------------------------------------------------------- *)
(* Threads: the same three functions, one global load or store per step    *)
(* ---------------------------------------------------------------------- *)

AttributeError == "AttributeError"

\* arguments the threads pass to init_pool
ThreadArgs ==
  {[dsn |-> d, min_size |-> DefaultMinSize, max_size |-> DefaultMaxSize] :
     d \in {None, "postgresql://x:y@z:1/w"}}

\* thread t's outermost frame returns v, or raises x; its locals are gone
Finish(t, v, x) ==
  /\ pc' = [pc EXCEPT ![t] = "idle"]
  /\ tret' = [tret EXCEPT ![t] = v]
  /\ terr' = [terr EXCEPT ![t] = x]
  /\ tstale' = [tstale EXCEPT ![t] = (v # NoPool /\ pools[v].closes > 0)]
  /\ targs' = [targs EXCEPT ![t] = NoArgs]

\* thread t goes on to line l, its init_pool frame holding arguments a
GotoWith(t, l, a) ==
  /\ pc' = [pc EXCEPT ![t] = l]
  /\ targs' = [targs EXCEPT ![t] = a]
  /\ UNCHANGED <<tret, terr, tstale>>

Goto(t, l) == GotoWith(t, l, targs[t])

\* init_pool's `return _pool` (lines 37 and 51): to the caller of
\* init_pool, or back into get_pool, which discards the value (line 58)
ReturnFromInit(t) ==
  IF call[t] = "get_pool" THEN GotoWith(t, "g59", NoArgs) ELSE Finish(t, _pool, Ok)

\* lines 36-48 of init_pool called with arguments a: the test of the global
\* (one load), then the reads of the environment and the check of line 47,
\* which touch nothing another thread writes; a ValueError propagates
\* through get_pool
EnterInit(t, a) ==
  IF _pool # NoPool
    THEN GotoWith(t, "i37", a)
    ELSE IF missing_config(env)
      THEN Finish(t, NoPool, ValueError)
      ELSE GotoWith(t, "i50", a)

\* a call of init_pool(dsn), up to the test of line 36
CallInitPool(t) ==
  /\ pc[t] = "idle"
  /\ \E a \in ThreadArgs : EnterInit(t, a)
  /\ call' = [call EXCEPT ![t] = "init_pool"]
  /\ UNCHANGED <<_pool, pools, env, seqvars, tmp, closing>>

\* a call of get_pool(), up to the test of line 57; when the global is None
\* it goes on to the init_pool() of line 58
CallGetPool(t) ==
  /\ pc[t] = "idle"
  /\ call' = [call EXCEPT ![t] = "get_pool"]
  /\ IF _pool = NoPool THEN GotoWith(t, "i36", NoArgs) ELSE Goto(t, "g59")
  /\ UNCHANGED <<_pool, pools, env, seqvars, tmp, closing>>

\* a call of close_pool(), up to the test of line 66
CallClosePool(t) ==
  /\ pc[t] = "idle"
  /\ call' = [call EXCEPT ![t] = "close_pool"]
  /\ closing' = TRUE
  /\ IF _pool # NoPool THEN Goto(t, "c67") ELSE Finish(t, NoPool, Ok)
  /\ UNCHANGED <<_pool, pools, env, seqvars, tmp>>

\* line 36, reached from get_pool's line 58
I36(t) ==
  /\ pc[t] = "i36"
  /\ EnterInit(t, targs[t])
  /\ UNCHANGED <<_pool, pools, env, seqvars, call, tmp, closing>>

\* line 37: return _pool
I37(t) ==
  /\ pc[t] = "i37"
  /\ ReturnFromInit(t)
  /\ UNCHANGED <<_pool, pools, env, seqvars, call, tmp, closing>>

\* line 50, right-hand side: ConnectionPool(effective_dsn, ...)
I50(t) ==
  /\ pc[t] = "i50"
  /\ Len(pools) < MaxPools
  /\ pools' = Append(pools, ConnectionPool(effective_dsn(targs[t].dsn, env),
                                           targs[t].min_size, targs[t].max_size))
  /\ tmp' = [tmp EXCEPT ![t] = Len(pools) + 1]
  /\ Goto(t, "i50s")
  /\ UNCHANGED <<_pool, env, seqvars, call, closing>>

\* line 50, assignment: _pool = ...
I50s(t) ==
  /\ pc[t] = "i50s"
  /\ _pool' = tmp[t]
  /\ tmp' = [tmp EXCEPT ![t] = NoPool]
  /\ Goto(t, "i51")
  /\ UNCHANGED <<pools, env, seqvars, call, closing>>

\* line 51: return _pool
I51(t) ==
  /\ pc[t] = "i51"
  /\ ReturnFromInit(t)
  /\ UNCHANGED <<_pool, pools, env, seqvars, call, tmp, closing>>

\* line 59: assert _pool is not None
G59(t) ==
  /\ pc[t] = "g59"
  /\ IF _pool = NoPool THEN Finish(t, NoPool, AssertionError) ELSE Goto(t, "g60")
  /\ UNCHANGED <<_pool, pools, env, seqvars, call, tmp, closing>>

\* line 60: return _pool
G60(t) ==
  /\ pc[t] = "g60"
  /\ Finish(t, _pool, Ok)
  /\ UNCHANGED <<_pool, pools, env, seqvars, call, tmp, closing>>

\* line 67: _pool.close(), on whatever the global holds now
C67(t) ==
  /\ pc[t] = "c67"
  /\ IF _pool = NoPool
       THEN Finish(t, NoPool, AttributeError) /\ UNCHANGED pools
       ELSE pools' = [pools EXCEPT ![_pool].closes = @ + 1] /\ Goto(t, "c68")
  /\ UNCHANGED <<_pool, env, seqvars, call, tmp, closing>>

\* line 68: _pool = None, and return
C68(t) ==
  /\ pc[t] = "c68"
  /\ _pool' = NoPool
  /\ Finish(t, NoPool, Ok)
  /\ UNCHANGED <<pools, env, seqvars, call, tmp, closing>>

NextThreads ==
  \E t \in Threads :
    \/ CallInitPool(t) \/ CallGetPool(t) \/ CallClosePool(t)
    \/ G59(t) \/ G60(t)
    \/ I36(t) \/ I37(t) \/ I50(t) \/ I50s(t) \/ I51(t)
    \/ C67(t) \/ C68(t)

SpecThreads == Init /\ [][NextThreads]_vars

TypeOK ==
  /\ _pool \in 0..Len(pools)
  /\ env \in Environments
  /\ Len(pools) <= MaxPools

(* ---------------------------------------------------------------------- *)
(* Claims checked under Spec (one thread, calls run to completion)         *)
(* ---------------------------------------------------------------------- *)

Calls == {"init_pool", "get_pool"}

\* the connection string of the one complete environment of the model
CompleteUrl == "postgresql://u:p@h:5432/d?sslmode=require&channel_binding=require"

\* C1: two successful get_pool() calls with no close_pool() between them
\* return the same pool, and the later one constructs nothing.
C1_SingletonGet ==
  [][(op' = "get_pool" /\ err' = Ok /\ lastGet # NoPool)
       => (ret' = lastGet /\ ~built' /\ Len(pools') = Len(pools))]_vars

\* two successful get_pool() calls in a row under a complete configuration
C1_Witness ==
  /\ op = "get_pool" /\ err = Ok
  /\ prevOp = "get_pool" /\ prevErr = Ok
  /\ Missing(env) = {}
  /\ ret = lastGet /\ ret # NoPool

\* C2: init_pool() with a pool present returns it and changes nothing,
\* whatever its arguments and whatever the environment.
C2_InitExisting ==
  /\ (op = "init_pool" /\ pre # NoPool)
       => (err = Ok /\ ret = pre /\ _pool = pre /\ ~built)
  /\ _pool # NoPool =>
       \A dsn \in DsnArgs, sz \in SizeArgs :
         init_pool(_pool, pools, env, dsn, sz[1], sz[2]) = Result(_pool, pools, _pool, Ok)

\* init_pool(dsn, 2, 5) on an existing pool with the configuration now incomplete
C2_Witness ==
  /\ op = "init_pool" /\ pre # NoPool
  /\ Missing(env) # {}
  /\ Truthy(args.dsn) /\ args.min_size = 2
  /\ pools[pre].dsn # args.dsn

\* C3: with no pool and an incomplete environment, init_pool(dsn) with a
\* non-empty dsn succeeds and stores a pool built from dsn.
C3_ExplicitDsnBypass ==
  (op = "init_pool" /\ pre = NoPool /\ Truthy(args.dsn) /\ Missing(env) # {})
    => (err = Ok /\ _pool # NoPool /\ ret = _pool /\ pools[_pool].dsn = args.dsn)

\* C4: with no pool, no dsn and an incomplete environment, init_pool() and
\* get_pool() raise, construct nothing and leave _pool absent; once the
\* environment is complete the call succeeds and creates the pool.
C4_ConfigError ==
  /\ (op \in Calls /\ pre = NoPool /\ ~Truthy(args.dsn) /\ Missing(env) # {})
       => (err = ValueError /\ ~built /\ _pool = NoPool /\ ret = NoPool)
  /\ (op \in Calls /\ pre = NoPool /\ ~Truthy(args.dsn) /\ Missing(env) = {})
       => (err = Ok /\ built /\ _pool = Len(pools) /\ ret = _pool)
  /\ (op \in Calls /\ err = ValueError) =>
       \A e \in {CompleteEnv} :
         /\ get_pool(_pool, pools, e).err = Ok
         /\ get_pool(_pool, pools, e)._pool = Len(pools) + 1
         /\ init_pool(_pool, pools, e, None, DefaultMinSize, DefaultMaxSize).err = Ok
         /\ init_pool(_pool, pools, e, None, DefaultMinSize, DefaultMaxSize)._pool = Len(pools) + 1

\* a call failed, the environment was then completed, and this call succeeded
C4_Witness ==
  /\ op \in Calls /\ err = Ok /\ built /\ ~Truthy(args.dsn)
  /\ prevOp = "setenv" /\ prevErr = ValueError

\* a call has just failed for want of configuration
C4_WitnessFail ==
  /\ op = "get_pool" /\ err = ValueError /\ _pool = NoPool

\* C5: close_pool() on an existing pool invokes its close() and clears the
\* global; a later successful get_pool() returns a newly constructed pool,
\* never a closed one.
C5_CloseThenGet ==
  /\ (op = "close_pool" /\ pre # NoPool)
       => (_pool = NoPool /\ pools[pre].closes >= 1)
  /\ (op = "get_pool" /\ err = Ok)
       => /\ pools[ret].closes = 0
          /\ \A i \in 1..Len(pools) : pools[i].closes > 0 => ret # i
  /\ (op = "get_pool" /\ err = Ok /\ pre = NoPool)
       => (built /\ ret = Len(pools))

\* get_pool() has built a second pool after the first one was closed
C5_Witness ==
  /\ op = "get_pool" /\ err = Ok /\ built
  /\ Len(pools) = 2 /\ pools[1].closes = 1 /\ ret = 2

\* C6: close_pool() never fails; with no pool it changes nothing; calling it
\* again changes nothing more, and no pool is ever closed twice.
C6_CloseIdempotent ==
  LET r1 == close_pool(_pool, pools)
      r2 == close_pool(r1._pool, r1.pools)
  IN /\ r1.err = Ok /\ r2.err = Ok
     /\ r2 = r1
     /\ r1._pool = NoPool
     /\ _pool = NoPool => r1.pools = pools
     /\ _pool # NoPool => r2.pools[_pool].closes = 1
     /\ \A i \in 1..Len(pools) : pools[i].closes <= 1
     /\ op = "close_pool" => (err = Ok /\ _pool = NoPool)

\* close_pool() twice in a row, the first of them on an existing pool
C6_Witness ==
  /\ op = "close_pool" /\ prevOp = "close_pool" /\ pre = NoPool
  /\ Len(pools) > 0 /\ pools[Len(pools)].closes = 1

\* C7: a pool is unclosed exactly when it is the one _pool refers to, so at
\* most one constructed pool is unclosed.
C7_SingletonInvariant ==
  /\ \A i \in 1..Len(pools) : (pools[i].closes = 0) <=> (i = _pool)
  /\ Cardinality({i \in 1..Len(pools) : pools[i].closes = 0}) <= 1

\* a second pool is the open one, after the first was closed
C7_Witness ==
  /\ Len(pools) = 2 /\ _pool = 2
  /\ pools[1].closes = 1 /\ pools[2].closes = 0

\* C9: a first init_pool(dsn, min_size, max_size) that succeeds builds the
\* pool from dsn when one is given (a non-empty string), otherwise from the
\* string assembled from the environment, with the sizes passed; get_pool()
\* builds it from the assembled string with sizes 1 and 10.
C9_DsnPrecedence ==
  /\ (op = "init_pool" /\ err = Ok /\ built) =>
       /\ pools[ret].dsn = (IF Truthy(args.dsn) THEN args.dsn ELSE CompleteUrl)
       /\ pools[ret].min_size = args.min_size
       /\ pools[ret].max_size = args.max_size
  /\ (op = "get_pool" /\ err = Ok /\ built) =>
       /\ pools[ret].dsn = CompleteUrl
       /\ pools[ret].min_size = 1
       /\ pools[ret].max_size = 10

\* init_pool built a pool from an explicit dsn with sizes 2 and 5
C9_Witness ==
  /\ op = "init_pool" /\ err = Ok /\ built
  /\ Truthy(args.dsn) /\ pools[ret].dsn = args.dsn /\ pools[ret].min_size = 2

\* init_pool built a pool from the assembled string
C9_WitnessUrl ==
  /\ op = "init_pool" /\ err = Ok /\ built
  /\ args.dsn = None /\ pools[ret].dsn = CompleteUrl

\* C10: from every state get_pool() and init_pool(None, 1, 10) have the same
\* outcome, return the same pool and leave the same global and pools.
C10_GetIsDefaultInit ==
  /\ get_pool(_pool, pools, env)
       = init_pool(_pool, pools, env, None, DefaultMinSize, DefaultMaxSize)
  /\ (op = "get_pool" /\ pre = NoPool /\ err = Ok) =>
       pools[ret] = ConnectionPool(postgres_url(env), DefaultMinSize, DefaultMaxSize)

\* get_pool() has built the pool itself
C10_Witness ==
  /\ op = "get_pool" /\ pre = NoPool /\ err = Ok /\ built /\ ret = _pool

(* ---------------------------------------------------------------------- *)
(* Claims checked under SpecThreads                                        *)
(* ---------------------------------------------------------------------- *)

\* C8: with a complete environment and no close_pool() call, concurrent
\* init_pool()/get_pool() calls construct at most one pool and all of them
\* return that pool.
C8_OnePoolUnderRace ==
  (~closing /\ Missing(env) = {}) =>
    /\ Len(pools) <= 1
    /\ \A t \in Threads :
         (call[t] \in Calls /\ pc[t] = "idle") => (terr[t] = Ok /\ tret[t] = 1)

\* C11: the assertion of line 59 never fails: a completed get_pool() has
\* either raised the configuration error or returned a pool that is not
\* None, also when close_pool() runs on another thread in between.
C11_AssertHolds ==
  \A t \in Threads :
    (call[t] = "get_pool" /\ pc[t] = "idle") =>
      \/ terr[t] = ValueError
      \/ terr[t] = Ok /\ tret[t] # NoPool

\* C12: a pool returned by get_pool() or init_pool() has not had its close()
\* invoked at the moment it is returned, also when close_pool() runs on
\* another thread in between.
C12_ReturnedPoolOpen ==
  \A t \in Threads :
    (call[t] \in Calls /\ pc[t] = "idle" /\ terr[t] = Ok /\ tret[t] # NoPool)
      => ~tstale[t]

====
